---- MODULE Spec2Model ----
(***************************************************************************)
(* Model of fw/platforms/esp32/src/esp32_wifi.c: the WiFi mode             *)
(* coordinator, the station life cycle driven by radio events, and the     *)
(* scan request multiplexer.                                               *)
(*                                                                         *)
(* Every public operation and the event handler take the recursive mutex   *)
(* s_wifi_mux on entry and give it back on exit, and touch the shared      *)
(* variables only in between.  An operation is therefore modelled by two   *)
(* steps: one that takes the mutex and runs the code up to the final       *)
(* esp32_wifi_unlock(), and one that performs that final unlock (and       *)
(* returns).  The event handler has a third step, the mgos_invoke_cb()     *)
(* it makes after its unlock.  Calls into the radio driver, the IP stack   *)
(* and the config validator are outside this file: their return values     *)
(* are inputs, drawn from every status code.  Heap allocations succeed,    *)
(* except the one whose failure the code tests (mgos_wifi_scan).           *)
(***************************************************************************)
EXTENDS Integers, Sequences, FiniteSets, TLC

\* ------------------------------------------------------------- bounds
NumCallers == 2       \* application tasks calling into the module
MaxWaiters == 3       \* scan requests made in one behaviour
MaxDeferred == 2      \* mgos_invoke_cb items queued before producers wait
MaxDropScans == 1     \* scan requests made around an explicit disconnect
MaxAps == 1           \* AP records one hardware scan reports

\* ------------------------------------------------------- program values
ESP_OK == "ESP_OK"
ESP_ERR_WIFI_NOT_INIT == "ESP_ERR_WIFI_NOT_INIT"
ESP_ERR_WIFI_NOT_STARTED == "ESP_ERR_WIFI_NOT_STARTED"
ESP_ERR_TCPIP_ADAPTER_IF_NOT_READY == "ESP_ERR_TCPIP_ADAPTER_IF_NOT_READY"
ESP_FAIL == "ESP_FAIL"

\* esp_err_t values the WiFi driver calls return
Codes == {ESP_OK, ESP_ERR_WIFI_NOT_INIT, ESP_ERR_WIFI_NOT_STARTED, ESP_FAIL}

WIFI_MODE_NULL == "WIFI_MODE_NULL"
WIFI_MODE_STA == "WIFI_MODE_STA"
WIFI_MODE_AP == "WIFI_MODE_AP"
WIFI_MODE_APSTA == "WIFI_MODE_APSTA"
Modes == {WIFI_MODE_NULL, WIFI_MODE_STA, WIFI_MODE_AP, WIFI_MODE_APSTA}
Roles == {WIFI_MODE_STA, WIFI_MODE_AP}

\* s_sta_state: NULL or one of the four string literals
STA_NULL == "NULL"
StaStates == {STA_NULL, "connecting", "idle", "associated", "got ip"}

MGOS_WIFI_DISCONNECTED == "MGOS_WIFI_DISCONNECTED"
MGOS_WIFI_CONNECTED == "MGOS_WIFI_CONNECTED"
MGOS_WIFI_IP_ACQUIRED == "MGOS_WIFI_IP_ACQUIRED"
NO_MG_EV == "-1"

EventIds == {"SYSTEM_EVENT_STA_START", "SYSTEM_EVENT_STA_STOP",
             "SYSTEM_EVENT_STA_DISCONNECTED", "SYSTEM_EVENT_STA_CONNECTED",
             "SYSTEM_EVENT_STA_GOT_IP", "SYSTEM_EVENT_AP_STACONNECTED",
             "SYSTEM_EVENT_AP_STADISCONNECTED", "SYSTEM_EVENT_SCAN_DONE",
             "SYSTEM_EVENT_WIFI_READY"}

\* ------------------------------------------------------------ contexts
EvTask == 0                       \* the task that delivers radio events
Callers == 1..NumCallers          \* application tasks
Tasks == {EvTask} \cup Callers
NoTask == -1

WaiterIds == 1..MaxWaiters        \* one wifi_scan_cb_info per accepted request

\* wifi_ap_record_t, as far as scan_cb_cb reads it
ApRecords == {[ssid |-> "net1", bssid |-> 1, authmode |-> 3, primary |-> 6, rssi |-> -40]}
ZeroRecord == [ssid |-> "", bssid |-> 0, authmode |-> 0, primary |-> 0, rssi |-> 0]

RECURSIVE SeqsUpTo(_, _)
SeqsUpTo(S, n) ==
  IF n = 0 THEN {<<>>}
  ELSE LET shorter == SeqsUpTo(S, n - 1)
       IN shorter \cup {Append(q, x) : q \in {p \in shorter : Len(p) = n - 1}, x \in S}

\* a pointer to an array: NULL, or the array's elements
\* x is an entry of the log q
InSeq(x, q) == \E i \in 1..Len(q) : q[i] = x
NullPtr == [null |-> TRUE, elems |-> <<>>]
ArrayPtr(elems) == [null |-> FALSE, elems |-> elems]

VARIABLES
  s_sta_state,            \* static const char *s_sta_state
  s_sta_should_connect,   \* static bool s_sta_should_connect
  s_cur_mode,             \* static wifi_mode_t s_cur_mode
  s_scan_in_progress,     \* static bool s_scan_in_progress
  s_scan_cbs,             \* SLIST of waiters, head first
  lock_owner,             \* holder of s_wifi_mux, or NoTask
  lock_count,             \* recursion count of s_wifi_mux
  deferred,               \* items handed to mgos_invoke_cb, oldest first
  pc,                     \* per task: "idle", "unlock" or "notify"
  frame,                  \* per task: the running operation's locals
  next_id,                \* next wifi_scan_cb_info to allocate
  cb_log,                 \* per waiter: the (num_aps, res) its callback was called with
  last                    \* the mode operation that returned last

vars == <<s_sta_state, s_sta_should_connect, s_cur_mode, s_scan_in_progress,
          s_scan_cbs, lock_owner, lock_count, deferred, pc, frame, next_id,
          cb_log, last>>

shared == <<s_sta_state, s_sta_should_connect, s_cur_mode, s_scan_in_progress,
            s_scan_cbs>>

\* ------------------------------------------------ wifi_ensure_init_and_start
\* rc holds what the driver returns: r1, r2, r3 for the first, second and third
\* call of func, ri for esp_wifi_init, rs for esp_wifi_start.
wifi_ensure_init_and_start(func, rc) ==
  IF rc.r1 = ESP_OK THEN [r |-> ESP_OK, calls |-> <<func>>]
  ELSE
    LET afterInit ==
          IF rc.r1 = ESP_ERR_WIFI_NOT_INIT
          THEN IF rc.ri # ESP_OK
               THEN [out |-> TRUE, r |-> rc.ri, calls |-> <<func, "esp_wifi_init">>]
               ELSE [out |-> (rc.r2 = ESP_OK), r |-> rc.r2,
                     calls |-> <<func, "esp_wifi_init", "esp_wifi_set_storage", func>>]
          ELSE [out |-> FALSE, r |-> rc.r1, calls |-> <<func>>]
    IN IF afterInit.out THEN [r |-> afterInit.r, calls |-> afterInit.calls]
       ELSE IF afterInit.r = ESP_ERR_WIFI_NOT_STARTED
       THEN IF rc.rs # ESP_OK
            THEN [r |-> rc.rs, calls |-> Append(afterInit.calls, "esp_wifi_start")]
            ELSE [r |-> rc.r3, calls |-> afterInit.calls \o <<"esp_wifi_start", func>>]
       ELSE [r |-> afterInit.r, calls |-> afterInit.calls]

\* mgos_wifi_set_mode with s_cur_mode assigned before the driver's answer is
\* tested.
mgos_wifi_set_mode_assigns_first(cur, mode, rc) ==
  IF mode = WIFI_MODE_NULL
  THEN LET r == IF rc.stop = ESP_ERR_WIFI_NOT_INIT THEN ESP_OK ELSE rc.stop
       IN [r |-> r, mode |-> WIFI_MODE_NULL, calls |-> <<"esp_wifi_stop">>, lk |-> 1 - 1]
  ELSE LET e == wifi_ensure_init_and_start("esp_wifi_set_mode", rc)
       IN [r |-> e.r, mode |-> mode, calls |-> e.calls, lk |-> 1 - 1]

\* ------------------------------------------------------- mgos_wifi_set_mode
\* Result: r the return value, mode the new s_cur_mode, calls the driver
\* calls made, lk the recursive takes of the mutex not given back.
mgos_wifi_set_mode(cur, mode, rc) ==
  IF mode = WIFI_MODE_NULL
  THEN LET r == IF rc.stop = ESP_ERR_WIFI_NOT_INIT THEN ESP_OK ELSE rc.stop
       IN [r |-> r, mode |-> IF r = ESP_OK THEN WIFI_MODE_NULL ELSE cur,
           calls |-> <<"esp_wifi_stop">>, lk |-> 1 - 1]
  ELSE LET e == wifi_ensure_init_and_start("esp_wifi_set_mode", rc)
       IN [r |-> e.r, mode |-> IF e.r = ESP_OK THEN mode ELSE cur,
           calls |-> e.calls, lk |-> 1 - 1]

\* ------------------------------------------------------- mgos_wifi_add_mode
mgos_wifi_add_mode(cur, mode, rc) ==
  IF cur = mode \/ cur = WIFI_MODE_APSTA
  THEN [r |-> ESP_OK, mode |-> cur, calls |-> <<>>, lk |-> 1 - 1]
  ELSE LET m == IF (cur = WIFI_MODE_AP /\ mode = WIFI_MODE_STA) \/
                   (cur = WIFI_MODE_STA /\ mode = WIFI_MODE_AP)
                THEN WIFI_MODE_APSTA ELSE mode
           s == mgos_wifi_set_mode(cur, m, rc)
       IN [s EXCEPT !.lk = 1 + s.lk - 1]

\* mgos_wifi_remove_mode whose "nothing to do" test is mode != s_cur_mode.
mgos_wifi_remove_mode_other_is_noop(cur, mode, rc) ==
  IF mode # cur
  THEN [r |-> ESP_OK, mode |-> cur, calls |-> <<>>, lk |-> 1 - 1]
  ELSE LET s == mgos_wifi_set_mode(cur, WIFI_MODE_NULL, rc)
       IN [s EXCEPT !.lk = 1 + s.lk - 1]

\* ---------------------------------------------------- mgos_wifi_remove_mode
mgos_wifi_remove_mode(cur, mode, rc) ==
  IF (mode = WIFI_MODE_STA /\ cur = WIFI_MODE_AP) \/
     (mode = WIFI_MODE_AP /\ cur = WIFI_MODE_STA)
  THEN [r |-> ESP_OK, mode |-> cur, calls |-> <<>>, lk |-> 1 - 1]
  ELSE LET m == IF mode = WIFI_MODE_APSTA \/
                   (mode = WIFI_MODE_STA /\ cur = WIFI_MODE_STA) \/
                   (mode = WIFI_MODE_AP /\ cur = WIFI_MODE_AP)
                THEN WIFI_MODE_NULL
                ELSE IF mode = WIFI_MODE_STA THEN WIFI_MODE_AP
                ELSE WIFI_MODE_STA
           s == mgos_wifi_set_mode(cur, m, rc)
       IN [s EXCEPT !.lk = 1 + s.lk - 1]

\* ------------------------------------------------------ mgos_wifi_setup_sta
\* cfg: valid is what mgos_wifi_validate_sta_cfg returns, enable is cfg->enable,
\* static is cfg->ip != NULL && cfg->netmask != NULL, host is host_name != NULL
\* in wifi_sta_set_host_name.  run: rc for the mode change, ip for
\* tcpip_adapter_set_ip_info, cfg for esp_wifi_set_config, host for
\* tcpip_adapter_set_hostname, conn for the calls of esp_wifi_connect.
\* Result: result the return value, mode and should the new s_cur_mode and
\* s_sta_should_connect.
\* mgos_wifi_setup_sta from its mgos_wifi_add_mode call on: cfg is valid and
\* enabled.
StaEnable(cur, should, cfg, run) ==
    LET am == mgos_wifi_add_mode(cur, WIFI_MODE_STA, run.rc)
        c1 == am.calls \o (IF cfg.static
                           THEN <<"tcpip_adapter_dhcpc_stop", "tcpip_adapter_set_ip_info">>
                           ELSE <<"tcpip_adapter_dhcpc_start">>)
        c2 == Append(c1, "esp_wifi_set_config")
        host_r == IF cfg.host THEN run.host ELSE ESP_OK
        c3 == c2 \o (IF cfg.host THEN <<"tcpip_adapter_set_hostname">> ELSE <<>>)
        e == wifi_ensure_init_and_start("esp_wifi_connect", run.conn)
    IN IF am.r # ESP_OK
       THEN [result |-> FALSE, mode |-> am.mode, should |-> should,
             calls |-> am.calls, lk |-> am.lk]
       ELSE IF cfg.static /\ run.ip # ESP_OK
       THEN [result |-> FALSE, mode |-> am.mode, should |-> should,
             calls |-> c1, lk |-> am.lk]
       ELSE IF run.cfg # ESP_OK
       THEN [result |-> FALSE, mode |-> am.mode, should |-> should,
             calls |-> c2, lk |-> am.lk]
       ELSE IF host_r # ESP_OK /\ host_r # ESP_ERR_TCPIP_ADAPTER_IF_NOT_READY
       THEN [result |-> FALSE, mode |-> am.mode, should |-> TRUE,
             calls |-> c3, lk |-> am.lk]
       ELSE [result |-> (e.r = ESP_OK), mode |-> am.mode, should |-> TRUE,
             calls |-> c3 \o e.calls, lk |-> am.lk]

\* mgos_wifi_setup_sta whose disabled branch does not clear
\* s_sta_should_connect.
mgos_wifi_setup_sta_disable_keeps_flag(cur, should, cfg, run) ==
  IF ~cfg.valid
  THEN [result |-> FALSE, mode |-> cur, should |-> should, calls |-> <<>>, lk |-> 0]
  ELSE IF ~cfg.enable
  THEN LET rm == mgos_wifi_remove_mode(cur, WIFI_MODE_STA, run.rc)
       IN [result |-> (rm.r = ESP_OK), mode |-> rm.mode, should |-> should,
           calls |-> rm.calls, lk |-> rm.lk]
  ELSE StaEnable(cur, should, cfg, run)

mgos_wifi_setup_sta(cur, should, cfg, run) ==
  IF ~cfg.valid
  THEN [result |-> FALSE, mode |-> cur, should |-> should, calls |-> <<>>, lk |-> 0]
  ELSE IF ~cfg.enable
  THEN LET rm == mgos_wifi_remove_mode(cur, WIFI_MODE_STA, run.rc)
       IN [result |-> (rm.r = ESP_OK), mode |-> rm.mode, should |-> FALSE,
           calls |-> rm.calls, lk |-> rm.lk]
  ELSE StaEnable(cur, should, cfg, run)

\* ------------------------------------------------------- mgos_wifi_setup_ap
\* mgos_wifi_setup_ap from its mgos_wifi_add_mode call on: cfg is valid and
\* enabled.  run holds what the driver and the IP stack return.  The return
\* value of the final esp_wifi_start is not read.
ApEnable(cur, cfg, run) ==
  LET am == mgos_wifi_add_mode(cur, WIFI_MODE_AP, run.rc)
      c1 == Append(am.calls, "esp_wifi_set_config")
      c2 == c1 \o <<"tcpip_adapter_dhcps_stop", "tcpip_adapter_set_ip_info">>
      c3 == Append(c2, "tcpip_adapter_dhcps_option")
      c4 == Append(c3, "tcpip_adapter_dhcps_start")
  IN IF am.r # ESP_OK
     THEN [result |-> FALSE, mode |-> am.mode, calls |-> am.calls, lk |-> am.lk]
     ELSE IF run.cfg # ESP_OK
     THEN [result |-> FALSE, mode |-> am.mode, calls |-> c1, lk |-> am.lk]
     ELSE IF run.ip # ESP_OK
     THEN [result |-> FALSE, mode |-> am.mode, calls |-> c2, lk |-> am.lk]
     ELSE IF run.opt # ESP_OK
     THEN [result |-> FALSE, mode |-> am.mode, calls |-> c3, lk |-> am.lk]
     ELSE IF run.dhcps # ESP_OK
     THEN [result |-> FALSE, mode |-> am.mode, calls |-> c4, lk |-> am.lk]
     ELSE [result |-> TRUE, mode |-> am.mode, calls |-> Append(c4, "esp_wifi_start"),
           lk |-> am.lk]

mgos_wifi_setup_ap(cur, cfg, run) ==
  IF ~cfg.valid
  THEN [result |-> FALSE, mode |-> cur, calls |-> <<>>, lk |-> 0]
  ELSE IF ~cfg.enable
  THEN LET rm == mgos_wifi_remove_mode(cur, WIFI_MODE_AP, run.rc)
       IN [result |-> (rm.r = ESP_OK), mode |-> rm.mode, calls |-> rm.calls,
           lk |-> rm.lk]
  ELSE ApEnable(cur, cfg, run)

\* ------------------------------------------------------ mgos_wifi_set_config
\* The second branch of mgos_wifi_set_config: mgos_wifi_set_mode(APSTA) == ESP_OK
\* && mgos_wifi_setup_ap(&cfg->ap) && mgos_wifi_setup_sta(&cfg->sta), each
\* operand counted only when those before it hold; sm, ap and st are the
\* values the three calls return.
CfgBoth(cur, should, cfg, run) ==
  LET Both(sm, ap, st) ==
        IF sm.r # ESP_OK
        THEN [result |-> FALSE, mode |-> sm.mode, should |-> should,
              calls |-> sm.calls, lk |-> sm.lk]
        ELSE IF ~ap.result
        THEN [result |-> FALSE, mode |-> ap.mode, should |-> should,
              calls |-> sm.calls \o ap.calls, lk |-> sm.lk + ap.lk]
        ELSE [result |-> st.result, mode |-> st.mode, should |-> st.should,
              calls |-> sm.calls \o ap.calls \o st.calls,
              lk |-> sm.lk + ap.lk + st.lk]
  IN CHOOSE res \in
       UNION {UNION {{Both(sm, ap, st) :
                        st \in {mgos_wifi_setup_sta(ap.mode, should, cfg.sta, run.sta)}} :
                     ap \in {mgos_wifi_setup_ap(sm.mode, cfg.ap, run.ap)}} :
              sm \in {mgos_wifi_set_mode(cur, WIFI_MODE_APSTA, run.mode)}} : TRUE

mgos_wifi_set_config(cur, should, cfg, run) ==
  IF cfg.ap.enable /\ ~cfg.sta.enable
  THEN LET ap == mgos_wifi_setup_ap(cur, cfg.ap, run.ap)
       IN [result |-> ap.result, mode |-> ap.mode, should |-> should,
           calls |-> ap.calls, lk |-> ap.lk]
  ELSE IF cfg.ap.enable /\ cfg.sta.enable /\ cfg.ap.keep_enabled
  THEN CfgBoth(cur, should, cfg, run)
  ELSE IF cfg.sta.enable
  THEN mgos_wifi_setup_sta(cur, should, cfg.sta, run.sta)
  ELSE LET sm == mgos_wifi_set_mode(cur, WIFI_MODE_NULL, run.mode)
       IN [result |-> (sm.r = ESP_OK), mode |-> sm.mode, should |-> should,
           calls |-> sm.calls, lk |-> sm.lk]

\* ----------------------------------------------------- mgos_wifi_disconnect
\* mgos_wifi_disconnect that leaves s_sta_should_connect as it is.
mgos_wifi_disconnect_keeps_flag(should) ==
  [result |-> TRUE, should |-> should, calls |-> <<"esp_wifi_disconnect">>, lk |-> 0]

mgos_wifi_disconnect(should) ==
  [result |-> TRUE, should |-> FALSE, calls |-> <<"esp_wifi_disconnect">>, lk |-> 0]

\* ---------------------------------------------------- driver return values
\* What the driver returns to one mgos_wifi_set_mode call.  A value the code
\* never reads on that run is fixed to ESP_OK, so that each run is listed once.
EnsureReadsRi(rc) == rc.r1 = ESP_ERR_WIFI_NOT_INIT
EnsureReadsR2(rc) == EnsureReadsRi(rc) /\ rc.ri = ESP_OK
EnsureReadsRs(rc) == \/ rc.r1 = ESP_ERR_WIFI_NOT_STARTED
                     \/ EnsureReadsR2(rc) /\ rc.r2 = ESP_ERR_WIFI_NOT_STARTED
EnsureReadsR3(rc) == EnsureReadsRs(rc) /\ rc.rs = ESP_OK
EnsureRunOk == [stop |-> ESP_OK, r1 |-> ESP_OK, ri |-> ESP_OK, r2 |-> ESP_OK,
                rs |-> ESP_OK, r3 |-> ESP_OK]
EnsureRuns ==
  {rc \in [stop : {ESP_OK}, r1 : Codes, ri : Codes, r2 : Codes, rs : Codes, r3 : Codes] :
     /\ EnsureReadsRi(rc) \/ rc.ri = ESP_OK
     /\ EnsureReadsR2(rc) \/ rc.r2 = ESP_OK
     /\ EnsureReadsRs(rc) \/ rc.rs = ESP_OK
     /\ EnsureReadsR3(rc) \/ rc.r3 = ESP_OK}
ModeRuns == EnsureRuns \cup {[EnsureRunOk EXCEPT !.stop = c] : c \in Codes}

\* What the driver returns to one mgos_wifi_scan call: rc to the mode change,
\* start to esp_wifi_start, scan to esp_wifi_scan_start.
ScanRuns ==
  {x \in [rc : EnsureRuns, start : Codes, scan : Codes] :
     /\ wifi_ensure_init_and_start("esp_wifi_set_mode", x.rc).r = ESP_OK
          \/ (x.start = ESP_OK /\ x.scan = ESP_OK)
     /\ x.start = ESP_OK \/ x.scan = ESP_OK}

\* The inputs of one mgos_wifi_setup_sta call: the config and what the driver
\* and the IP stack return.  One step of the call is varied at a time, the
\* others succeed; a value the config keeps the code from reading is ESP_OK.
StaRunOk == [rc |-> EnsureRunOk, ip |-> ESP_OK, cfg |-> ESP_OK, host |-> ESP_OK,
             conn |-> EnsureRunOk]
StaRuns ==
  {[StaRunOk EXCEPT !.rc = x] : x \in ModeRuns}
  \cup {[StaRunOk EXCEPT !.ip = ESP_FAIL], [StaRunOk EXCEPT !.cfg = ESP_FAIL]}
  \cup {[StaRunOk EXCEPT !.host = h, !.conn = x] :
          h \in {ESP_OK, ESP_ERR_TCPIP_ADAPTER_IF_NOT_READY, ESP_FAIL}, x \in EnsureRuns}
StaCfgs == [valid : BOOLEAN, enable : BOOLEAN, static : BOOLEAN, host : BOOLEAN]
StaInputs ==
  {x \in [cfg : StaCfgs, run : StaRuns] :
     /\ x.cfg.valid \/ (~x.cfg.enable /\ x.run = StaRunOk)
     /\ x.cfg.enable \/ (~x.cfg.static /\ ~x.cfg.host /\
                          \E rc \in ModeRuns : x.run = [StaRunOk EXCEPT !.rc = rc])
     /\ x.cfg.static \/ x.run.ip = ESP_OK
     /\ x.cfg.host \/ x.run.host = ESP_OK}
\* the calls in which every driver call succeeds
StaInputsOk == {x \in StaInputs : x.run = StaRunOk}

\* The inputs of one mgos_wifi_setup_ap call, listed as those of
\* mgos_wifi_setup_sta are.
ApRunOk == [rc |-> EnsureRunOk, cfg |-> ESP_OK, ip |-> ESP_OK, opt |-> ESP_OK,
            dhcps |-> ESP_OK]
ApRuns ==
  {[ApRunOk EXCEPT !.rc = x] : x \in ModeRuns}
  \cup {[ApRunOk EXCEPT !.cfg = ESP_FAIL], [ApRunOk EXCEPT !.ip = ESP_FAIL],
        [ApRunOk EXCEPT !.opt = ESP_FAIL], [ApRunOk EXCEPT !.dhcps = ESP_FAIL]}
ApCfgs == [valid : BOOLEAN, enable : BOOLEAN]
ApInputs ==
  {x \in [cfg : ApCfgs, run : ApRuns] :
     /\ x.cfg.valid \/ (~x.cfg.enable /\ x.run = ApRunOk)
     /\ x.cfg.enable \/ \E rc \in ModeRuns : x.run = [ApRunOk EXCEPT !.rc = rc]}
\* the calls in which every driver call succeeds
ApInputsOk == {x \in ApInputs : x.run = ApRunOk}

\* The inputs of one mgos_wifi_set_config call: both configurations (the
\* station with DHCP and no host name), and per callee either success or the
\* failure of one driver call.
CfgCfgs ==
  [ap : [valid : BOOLEAN, enable : BOOLEAN, keep_enabled : BOOLEAN],
   sta : {c \in StaCfgs : ~c.static /\ ~c.host}]
CfgRuns ==
  [mode : {EnsureRunOk, [EnsureRunOk EXCEPT !.r1 = ESP_FAIL],
           [EnsureRunOk EXCEPT !.stop = ESP_FAIL]},
   ap : {ApRunOk, [ApRunOk EXCEPT !.rc = [EnsureRunOk EXCEPT !.r1 = ESP_FAIL]],
         [ApRunOk EXCEPT !.dhcps = ESP_FAIL]},
   sta : {StaRunOk, [StaRunOk EXCEPT !.rc = [EnsureRunOk EXCEPT !.r1 = ESP_FAIL]],
          [StaRunOk EXCEPT !.conn = [EnsureRunOk EXCEPT !.r1 = ESP_FAIL]]}]
CfgInputs == [cfg : CfgCfgs, run : CfgRuns]
\* the calls in which every driver call succeeds
CfgInputsOk ==
  {x \in CfgInputs : x.run = [mode |-> EnsureRunOk, ap |-> ApRunOk, sta |-> StaRunOk]}

\* ------------------------------------------------------ deferred dispatch
\* One mgos_invoke_cb(fn, arg) item.
ChangeItem(mg_ev) ==
  [fn |-> "invoke_wifi_on_change_cb", arg |-> mg_ev, cbs |-> <<>>, num_aps |-> 0,
   aps |-> NullPtr]

\* invoke_scan_callbacks: the item it hands to mgos_invoke_cb
invoke_scan_callbacks(cbs, num_aps, aps) ==
  [fn |-> "scan_cb_cb", arg |-> NO_MG_EV, cbs |-> cbs, num_aps |-> num_aps,
   aps |-> aps]

\* mgos_wifi_scan that does not test s_scan_in_progress: every request starts
\* a hardware scan.
mgos_wifi_scan_always_starts(cur, in_progress, cbs, cbi, run) ==
  LET need == cur # WIFI_MODE_STA /\ cur # WIFI_MODE_APSTA
      am == IF need THEN mgos_wifi_add_mode(cur, WIFI_MODE_STA, run.rc)
            ELSE [r |-> ESP_OK, mode |-> cur, calls |-> <<>>, lk |-> 0]
      started == need /\ am.r = ESP_OK
      r1 == IF started THEN run.start ELSE am.r
      c1 == am.calls \o (IF started THEN <<"esp_wifi_start">> ELSE <<>>)
      r2 == IF r1 = ESP_OK THEN run.scan ELSE r1
      c2 == c1 \o (IF r1 = ESP_OK THEN <<"esp_wifi_scan_start">> ELSE <<>>)
  IN IF r2 # ESP_OK
     THEN [r |-> r2, mode |-> am.mode, in_progress |-> in_progress, cbs |-> cbs,
           submit |-> <<invoke_scan_callbacks(<<cbi>>, -1, NullPtr)>>,
           calls |-> c2, lk |-> am.lk]
     ELSE [r |-> r2, mode |-> am.mode, in_progress |-> TRUE, cbs |-> <<cbi>> \o cbs,
           submit |-> <<>>, calls |-> c2, lk |-> am.lk]

\* mgos_wifi_scan without the goto out of its failure path: the waiter of a
\* failed request is queued as well.
mgos_wifi_scan_failure_queues(cur, in_progress, cbs, cbi, run) ==
  LET need == cur # WIFI_MODE_STA /\ cur # WIFI_MODE_APSTA
      am == IF need THEN mgos_wifi_add_mode(cur, WIFI_MODE_STA, run.rc)
            ELSE [r |-> ESP_OK, mode |-> cur, calls |-> <<>>, lk |-> 0]
      started == need /\ am.r = ESP_OK
      r1 == IF started THEN run.start ELSE am.r
      c1 == am.calls \o (IF started THEN <<"esp_wifi_start">> ELSE <<>>)
      r2 == IF r1 = ESP_OK THEN run.scan ELSE r1
      c2 == c1 \o (IF r1 = ESP_OK THEN <<"esp_wifi_scan_start">> ELSE <<>>)
  IN IF in_progress
     THEN [r |-> ESP_OK, mode |-> cur, in_progress |-> in_progress,
           cbs |-> <<cbi>> \o cbs, submit |-> <<>>, calls |-> <<>>, lk |-> 0]
     ELSE [r |-> r2, mode |-> am.mode, in_progress |-> (r2 = ESP_OK),
           cbs |-> <<cbi>> \o cbs,
           submit |-> IF r2 # ESP_OK
                      THEN <<invoke_scan_callbacks(<<cbi>>, -1, NullPtr)>> ELSE <<>>,
           calls |-> c2, lk |-> am.lk]

\* mgos_wifi_scan that starts the scan in whatever mode the radio is in.
mgos_wifi_scan_any_mode(cur, in_progress, cbs, cbi, run) ==
  IF ~in_progress
  THEN IF run.scan # ESP_OK
       THEN [r |-> run.scan, mode |-> cur, in_progress |-> FALSE, cbs |-> cbs,
             submit |-> <<invoke_scan_callbacks(<<cbi>>, -1, NullPtr)>>,
             calls |-> <<"esp_wifi_scan_start">>, lk |-> 0]
       ELSE [r |-> run.scan, mode |-> cur, in_progress |-> TRUE, cbs |-> <<cbi>> \o cbs,
             submit |-> <<>>, calls |-> <<"esp_wifi_scan_start">>, lk |-> 0]
  ELSE [r |-> ESP_OK, mode |-> cur, in_progress |-> in_progress, cbs |-> <<cbi>> \o cbs,
        submit |-> <<>>, calls |-> <<>>, lk |-> 0]

\* ------------------------------------------------------------ mgos_wifi_scan
\* The code between esp32_wifi_lock() and the final esp32_wifi_unlock().
\* cbi is the freshly allocated waiter.
mgos_wifi_scan(cur, in_progress, cbs, cbi, run) ==
  IF ~in_progress
  THEN LET need == cur # WIFI_MODE_STA /\ cur # WIFI_MODE_APSTA
           am == IF need THEN mgos_wifi_add_mode(cur, WIFI_MODE_STA, run.rc)
                 ELSE [r |-> ESP_OK, mode |-> cur, calls |-> <<>>, lk |-> 0]
           started == need /\ am.r = ESP_OK
           r1 == IF started THEN run.start ELSE am.r
           c1 == am.calls \o (IF started THEN <<"esp_wifi_start">> ELSE <<>>)
           r2 == IF r1 = ESP_OK THEN run.scan ELSE r1
           c2 == c1 \o (IF r1 = ESP_OK THEN <<"esp_wifi_scan_start">> ELSE <<>>)
       IN IF r2 # ESP_OK
          THEN [r |-> r2, mode |-> am.mode, in_progress |-> FALSE, cbs |-> cbs,
                submit |-> <<invoke_scan_callbacks(<<cbi>>, -1, NullPtr)>>,
                calls |-> c2, lk |-> am.lk]
          ELSE [r |-> r2, mode |-> am.mode, in_progress |-> TRUE, cbs |-> <<cbi>> \o cbs,
                submit |-> <<>>, calls |-> c2, lk |-> am.lk]
  ELSE [r |-> ESP_OK, mode |-> cur, in_progress |-> in_progress, cbs |-> <<cbi>> \o cbs,
        submit |-> <<>>, calls |-> <<>>, lk |-> 0]

\* ------------------------------------------------------------- radio events
\* system_event_t: for SYSTEM_EVENT_SCAN_DONE, status and number are the
\* event's fields, rr is what esp_wifi_scan_get_ap_records returns and recs
\* the records it writes.
PlainEvent(id) == [event_id |-> id, status |-> 0, number |-> 0, rr |-> ESP_OK,
                   recs |-> <<>>]
\* The driver found number = Len(recs) APs; a failed scan (status # 0) or a
\* failed esp_wifi_scan_get_ap_records yields none.
ScanDoneEvents ==
  {e \in [event_id : {"SYSTEM_EVENT_SCAN_DONE"}, status : {0, 1}, number : 0..MaxAps,
          rr : {ESP_OK, ESP_FAIL}, recs : SeqsUpTo(ApRecords, MaxAps)] :
     /\ Len(e.recs) = e.number
     /\ (e.status = 0 /\ e.rr = ESP_OK) \/ e.recs = <<>>
     /\ e.status = 0 \/ e.rr = ESP_OK}
Events == {PlainEvent(id) : id \in EventIds \ {"SYSTEM_EVENT_SCAN_DONE"}}
          \cup ScanDoneEvents
\* the events of the station and the access point
StaEvents == {PlainEvent(id) : id \in EventIds \ {"SYSTEM_EVENT_SCAN_DONE"}}
\* the events that end a scan
ScanEvents == {PlainEvent("SYSTEM_EVENT_STA_STOP")} \cup ScanDoneEvents

\* calloc(number, sizeof(*aps)) filled by esp_wifi_scan_get_ap_records
ApArray(number, recs) ==
  ArrayPtr([i \in 1..number |-> IF i <= Len(recs) THEN recs[i] ELSE ZeroRecord])

\* ------------------------------------------------------------- esp32_wifi_ev
\* esp32_wifi_ev(ev) on the state st = Shared, one operator per case of its
\* switch.  mg_ev is the event passed on to the change callback (NO_MG_EV when
\* none), submit the items handed to mgos_invoke_cb under the lock, lk the
\* nesting depth the lock is left at before the final unlock.
EvSame(st) ==
  [sta |-> st.sta, in_progress |-> st.in_progress, cbs |-> st.cbs,
   mg_ev |-> NO_MG_EV, submit |-> <<>>, calls |-> <<>>, lk |-> 0]
EvStaStop(st) ==
  IF st.in_progress
  THEN [EvSame(st) EXCEPT !.sta = STA_NULL, !.in_progress = FALSE, !.cbs = <<>>,
                          !.submit = <<invoke_scan_callbacks(st.cbs, -1, NullPtr)>>]
  ELSE [EvSame(st) EXCEPT !.sta = STA_NULL]
EvDisconnected(st) ==
  IF st.should
  THEN [EvSame(st) EXCEPT !.mg_ev = MGOS_WIFI_DISCONNECTED, !.sta = "connecting",
                          !.calls = <<"esp_wifi_connect">>]
  ELSE [EvSame(st) EXCEPT !.mg_ev = MGOS_WIFI_DISCONNECTED, !.sta = "idle"]
EvScanDone(st, ev) ==
  LET got == ev.status = 0 /\ ev.rr = ESP_OK
      num_aps == IF got THEN Len(ev.recs) ELSE -1
      aps == IF ev.status = 0 THEN ApArray(ev.number, ev.recs) ELSE NullPtr
  IN [EvSame(st) EXCEPT !.in_progress = FALSE, !.cbs = <<>>,
                        !.submit = <<invoke_scan_callbacks(st.cbs, num_aps, aps)>>,
                        !.calls = IF ev.status = 0
                                  THEN <<"esp_wifi_scan_get_ap_records">>
                                  ELSE <<>>]
EvOther(st, ev) ==
  CASE ev.event_id = "SYSTEM_EVENT_STA_START" ->
         [EvSame(st) EXCEPT !.sta = "connecting"]
    [] ev.event_id = "SYSTEM_EVENT_STA_CONNECTED" ->
         [EvSame(st) EXCEPT !.sta = "associated", !.mg_ev = MGOS_WIFI_CONNECTED]
    [] ev.event_id = "SYSTEM_EVENT_STA_GOT_IP" ->
         [EvSame(st) EXCEPT !.mg_ev = MGOS_WIFI_IP_ACQUIRED, !.sta = "got ip"]
    [] OTHER -> EvSame(st)

\* esp32_wifi_ev whose SYSTEM_EVENT_STA_STOP case only clears s_sta_state.
esp32_wifi_ev_stop_ignores_scan(st, ev) ==
  CASE ev.event_id = "SYSTEM_EVENT_STA_STOP" -> [EvSame(st) EXCEPT !.sta = STA_NULL]
    [] ev.event_id = "SYSTEM_EVENT_STA_DISCONNECTED" -> EvDisconnected(st)
    [] ev.event_id = "SYSTEM_EVENT_SCAN_DONE" -> EvScanDone(st, ev)
    [] OTHER -> EvOther(st, ev)

\* esp32_wifi_ev whose SYSTEM_EVENT_STA_STOP case empties the waiter list
\* without calling invoke_scan_callbacks.
esp32_wifi_ev_stop_drops_waiters(st, ev) ==
  CASE ev.event_id = "SYSTEM_EVENT_STA_STOP" -> [EvStaStop(st) EXCEPT !.submit = <<>>]
    [] ev.event_id = "SYSTEM_EVENT_STA_DISCONNECTED" -> EvDisconnected(st)
    [] ev.event_id = "SYSTEM_EVENT_SCAN_DONE" -> EvScanDone(st, ev)
    [] OTHER -> EvOther(st, ev)

\* esp32_wifi_ev whose SYSTEM_EVENT_STA_STOP case hands the waiter list over
\* without resetting s_scan_cbs.slh_first.
esp32_wifi_ev_stop_keeps_list(st, ev) ==
  CASE ev.event_id = "SYSTEM_EVENT_STA_STOP" -> [EvStaStop(st) EXCEPT !.cbs = st.cbs]
    [] ev.event_id = "SYSTEM_EVENT_STA_DISCONNECTED" -> EvDisconnected(st)
    [] ev.event_id = "SYSTEM_EVENT_SCAN_DONE" -> EvScanDone(st, ev)
    [] OTHER -> EvOther(st, ev)

\* esp32_wifi_ev whose SYSTEM_EVENT_STA_STOP case clears s_scan_in_progress
\* and leaves the waiters where they are.
esp32_wifi_ev_stop_clears_flag_only(st, ev) ==
  CASE ev.event_id = "SYSTEM_EVENT_STA_STOP" ->
         [EvSame(st) EXCEPT !.sta = STA_NULL, !.in_progress = FALSE]
    [] ev.event_id = "SYSTEM_EVENT_STA_DISCONNECTED" -> EvDisconnected(st)
    [] ev.event_id = "SYSTEM_EVENT_SCAN_DONE" -> EvScanDone(st, ev)
    [] OTHER -> EvOther(st, ev)

\* esp32_wifi_ev whose SYSTEM_EVENT_SCAN_DONE case does not reset
\* s_scan_cbs.slh_first.
esp32_wifi_ev_done_keeps_list(st, ev) ==
  CASE ev.event_id = "SYSTEM_EVENT_STA_STOP" -> EvStaStop(st)
    [] ev.event_id = "SYSTEM_EVENT_STA_DISCONNECTED" -> EvDisconnected(st)
    [] ev.event_id = "SYSTEM_EVENT_SCAN_DONE" ->
         [EvScanDone(st, ev) EXCEPT !.cbs = st.cbs]
    [] OTHER -> EvOther(st, ev)

\* esp32_wifi_ev whose SYSTEM_EVENT_STA_DISCONNECTED case reconnects without
\* testing s_sta_should_connect.
esp32_wifi_ev_always_reconnects(st, ev) ==
  CASE ev.event_id = "SYSTEM_EVENT_STA_STOP" -> EvStaStop(st)
    [] ev.event_id = "SYSTEM_EVENT_STA_DISCONNECTED" ->
         [EvDisconnected(st) EXCEPT !.sta = "connecting",
                                    !.calls = <<"esp_wifi_connect">>]
    [] ev.event_id = "SYSTEM_EVENT_SCAN_DONE" -> EvScanDone(st, ev)
    [] OTHER -> EvOther(st, ev)

\* esp32_wifi_ev whose SYSTEM_EVENT_SCAN_DONE case never releases the lock it
\* takes around the waiter list.
esp32_wifi_ev_done_keeps_lock(st, ev) ==
  CASE ev.event_id = "SYSTEM_EVENT_STA_STOP" -> EvStaStop(st)
    [] ev.event_id = "SYSTEM_EVENT_STA_DISCONNECTED" -> EvDisconnected(st)
    [] ev.event_id = "SYSTEM_EVENT_SCAN_DONE" -> [EvScanDone(st, ev) EXCEPT !.lk = 1]
    [] OTHER -> EvOther(st, ev)

esp32_wifi_ev(st, ev) ==
  CASE ev.event_id = "SYSTEM_EVENT_STA_STOP" -> EvStaStop(st)
    [] ev.event_id = "SYSTEM_EVENT_STA_DISCONNECTED" -> EvDisconnected(st)
    [] ev.event_id = "SYSTEM_EVENT_SCAN_DONE" -> EvScanDone(st, ev)
    [] OTHER -> EvOther(st, ev)

\* ---------------------------------------------------------------- scan_cb_cb
\* struct mgos_wifi_scan_result built from one wifi_ap_record_t
ScanResult(ap) ==
  [ssid |-> ap.ssid, bssid |-> ap.bssid, auth_mode |-> ap.authmode,
   channel |-> ap.primary, rssi |-> ap.rssi]

\* The (num_aps, res) pair scan_cb_cb passes to every callback of the item.
scan_cb_cb(item) ==
  [num_aps |-> item.num_aps,
   res |-> IF item.num_aps >= 0
           THEN ArrayPtr([i \in 1..item.num_aps |-> ScanResult(item.aps.elems[i])])
           ELSE NullPtr]

\* ------------------------------------------------------------------- state
\* The shared variables as one record, for the locals of a running operation.
Shared == [mode |-> s_cur_mode, sta |-> s_sta_state, should |-> s_sta_should_connect,
           in_progress |-> s_scan_in_progress, cbs |-> s_scan_cbs]

\* A running operation: its name and argument, the shared variables at entry
\* (pre), and once its locked part has run: the value it returns (r), the
\* driver calls it made (calls), whether every one of them returned ESP_OK
\* (allok, kept for the mode operations), the items it handed to
\* mgos_invoke_cb (sub), its waiter (cbi), the event handler's mg_ev, and
\* what wifi_sta_set_host_name returned to mgos_wifi_setup_sta (host_r).
\* For mgos_wifi_set_config, arg names the roles cfg enables and inv the
\* configurations ("ap", "sta") that do not pass validation.
NoFrame == [op |-> "", arg |-> "", r |-> "", calls |-> <<>>, sub |-> <<>>,
            cbi |-> 0, mg_ev |-> NO_MG_EV, allok |-> FALSE, host_r |-> "",
            inv |-> {},
            pre |-> [mode |-> WIFI_MODE_NULL, sta |-> STA_NULL, should |-> FALSE,
                     in_progress |-> FALSE, cbs |-> <<>>]]

ModeOps == {"mgos_wifi_set_mode", "mgos_wifi_add_mode", "mgos_wifi_remove_mode"}
NoLast == [op |-> "", arg |-> "", allok |-> FALSE]

Init ==
  /\ s_sta_state = STA_NULL
  /\ s_sta_should_connect = FALSE
  /\ s_cur_mode = WIFI_MODE_NULL
  /\ s_scan_in_progress = FALSE
  /\ s_scan_cbs = <<>>
  /\ lock_owner = NoTask
  /\ lock_count = 0
  /\ deferred = <<>>
  /\ pc = [t \in Tasks |-> "idle"]
  /\ frame = [t \in Tasks |-> NoFrame]
  /\ next_id = 1
  /\ cb_log = [w \in WaiterIds |-> <<>>]
  /\ last = NoLast

\* Task t is about to start an operation and xSemaphoreTakeRecursive would
\* succeed: the recursive mutex is free, or t's own.
CanLock(t) ==
  /\ pc[t] = "idle"
  /\ lock_owner \in {NoTask, t}

\* esp32_wifi_lock() at the entry of an operation run by task t: the recursive
\* mutex is free (or t's own); nested is the count the locked part leaves taken.
Lock(t, nested) ==
  /\ CanLock(t)
  /\ lock_owner' = t
  /\ lock_count' = lock_count + 1 + nested

\* The locked part of a mode operation has run with result res.
ModeOpDone(t, op, arg, rc, res) ==
  /\ Lock(t, res.lk)
  /\ s_cur_mode' = res.mode
  /\ frame' = [frame EXCEPT ![t] = [NoFrame EXCEPT !.op = op, !.arg = arg, !.r = res.r,
                                                   !.calls = res.calls, !.pre = Shared,
                                                   !.allok = (rc = EnsureRunOk)]]
  /\ pc' = [pc EXCEPT ![t] = "unlock"]
  /\ UNCHANGED <<s_sta_state, s_sta_should_connect, s_scan_in_progress, s_scan_cbs,
                 deferred, next_id, cb_log, last>>

\* A task calls mgos_wifi_set_mode(mode).
SetMode(t) ==
  \E mode \in Modes, rc \in ModeRuns :
    ModeOpDone(t, "mgos_wifi_set_mode", mode, rc,
               mgos_wifi_set_mode(s_cur_mode, mode, rc))

\* A task calls mgos_wifi_add_mode(role).
AddMode(t) ==
  \E role \in Roles, rc \in ModeRuns :
    ModeOpDone(t, "mgos_wifi_add_mode", role, rc,
               mgos_wifi_add_mode(s_cur_mode, role, rc))

\* A task calls mgos_wifi_remove_mode(role).
RemoveMode(t) ==
  \E role \in Roles, rc \in ModeRuns :
    ModeOpDone(t, "mgos_wifi_remove_mode", role, rc,
               mgos_wifi_remove_mode(s_cur_mode, role, rc))

\* A task calls mgos_wifi_setup_sta(cfg).
SetupStaWith(t, inputs) ==
  /\ CanLock(t)
  /\ \E x \in inputs :
      \E res \in {mgos_wifi_setup_sta(s_cur_mode, s_sta_should_connect, x.cfg, x.run)} :
         /\ Lock(t, res.lk)
         /\ s_cur_mode' = res.mode
         /\ s_sta_should_connect' = res.should
         /\ frame' = [frame EXCEPT ![t] =
                        [NoFrame EXCEPT !.op = "mgos_wifi_setup_sta",
                                        !.arg = IF ~x.cfg.valid THEN "invalid"
                                                ELSE IF x.cfg.enable THEN "enable"
                                                ELSE "disable",
                                        !.r = IF res.result THEN "true" ELSE "false",
                                        !.calls = res.calls, !.pre = Shared,
                                        !.host_r =
                                          IF InSeq("tcpip_adapter_set_hostname", res.calls)
                                          THEN x.run.host ELSE ""]]
         /\ pc' = [pc EXCEPT ![t] = "unlock"]
         /\ UNCHANGED <<s_sta_state, s_scan_in_progress, s_scan_cbs, deferred, next_id,
                        cb_log, last>>

\* A task calls mgos_wifi_setup_sta(cfg), the driver answering anything.
SetupSta(t) == SetupStaWith(t, StaInputs)

\* A task calls mgos_wifi_setup_ap(cfg), with cfg and the driver's answers
\* taken from inputs.
SetupAp(t, inputs) ==
  /\ CanLock(t)
  /\ \E x \in inputs :
      \E res \in {mgos_wifi_setup_ap(s_cur_mode, x.cfg, x.run)} :
         /\ Lock(t, res.lk)
         /\ s_cur_mode' = res.mode
         /\ frame' = [frame EXCEPT ![t] =
                        [NoFrame EXCEPT !.op = "mgos_wifi_setup_ap",
                                        !.arg = IF ~x.cfg.valid THEN "invalid"
                                                ELSE IF x.cfg.enable THEN "enable"
                                                ELSE "disable",
                                        !.r = IF res.result THEN "true" ELSE "false",
                                        !.calls = res.calls, !.pre = Shared]]
         /\ pc' = [pc EXCEPT ![t] = "unlock"]
         /\ UNCHANGED <<s_sta_state, s_sta_should_connect, s_scan_in_progress,
                        s_scan_cbs, deferred, next_id, cb_log, last>>

\* A task calls mgos_wifi_get_status_str(): it returns a copy of s_sta_state
\* (NULL when that is NULL).
GetStatusStr(t) ==
  /\ Lock(t, 0)
  /\ frame' = [frame EXCEPT ![t] =
                 [NoFrame EXCEPT !.op = "mgos_wifi_get_status_str", !.r = s_sta_state,
                                 !.pre = Shared]]
  /\ pc' = [pc EXCEPT ![t] = "unlock"]
  /\ UNCHANGED <<shared, deferred, next_id, cb_log, last>>

\* the roles cfg enables, as the argument of a mgos_wifi_set_config frame
CfgArg(cfg) ==
  IF cfg.ap.enable /\ cfg.sta.enable
  THEN (IF cfg.ap.keep_enabled THEN "ap+sta+keep" ELSE "ap+sta")
  ELSE IF cfg.ap.enable THEN "ap"
  ELSE IF cfg.sta.enable THEN "sta"
  ELSE "none"

\* A task calls mgos_wifi_set_config(cfg), with cfg and the driver's answers
\* taken from inputs.
SetConfig(t, inputs) ==
  /\ CanLock(t)
  /\ \E x \in inputs :
      \E res \in {mgos_wifi_set_config(s_cur_mode, s_sta_should_connect, x.cfg, x.run)} :
         /\ Lock(t, res.lk)
         /\ s_cur_mode' = res.mode
         /\ s_sta_should_connect' = res.should
         /\ frame' = [frame EXCEPT ![t] =
                        [NoFrame EXCEPT !.op = "mgos_wifi_set_config",
                                        !.arg = CfgArg(x.cfg),
                                        !.inv = (IF x.cfg.ap.valid THEN {} ELSE {"ap"})
                                                \cup (IF x.cfg.sta.valid THEN {}
                                                      ELSE {"sta"}),
                                        !.r = IF res.result THEN "true" ELSE "false",
                                        !.calls = res.calls, !.pre = Shared]]
         /\ pc' = [pc EXCEPT ![t] = "unlock"]
         /\ UNCHANGED <<s_sta_state, s_scan_in_progress, s_scan_cbs, deferred, next_id,
                        cb_log, last>>

\* A task calls mgos_wifi_disconnect().
Disconnect(t) ==
  LET res == mgos_wifi_disconnect(s_sta_should_connect)
  IN /\ Lock(t, res.lk)
     /\ s_sta_should_connect' = res.should
     /\ frame' = [frame EXCEPT ![t] =
                    [NoFrame EXCEPT !.op = "mgos_wifi_disconnect", !.r = "true",
                                    !.calls = res.calls, !.pre = Shared]]
     /\ pc' = [pc EXCEPT ![t] = "unlock"]
     /\ UNCHANGED <<s_sta_state, s_cur_mode, s_scan_in_progress, s_scan_cbs, deferred,
                    next_id, cb_log, last>>

\* The callbacks one deferred item invokes: waiter -> (num_aps, res).
RECURSIVE LogCalls(_, _, _)
LogCalls(log, cbs, result) ==
  IF cbs = <<>> THEN log
  ELSE LogCalls([log EXCEPT ![Head(cbs)] = Append(@, result)], Tail(cbs), result)

\* mgos_wifi_scan whose failure path invokes the callback itself, under the
\* lock, instead of handing it to mgos_invoke_cb.
ScanCallsBackInline(t) ==
  /\ next_id <= MaxWaiters
  /\ Len(deferred) < MaxDeferred
  /\ CanLock(t)
  /\ \E run \in ScanRuns :
       \E res \in {mgos_wifi_scan(s_cur_mode, s_scan_in_progress, s_scan_cbs, next_id, run)} :
          /\ Lock(t, res.lk)
          /\ s_cur_mode' = res.mode
          /\ s_scan_in_progress' = res.in_progress
          /\ s_scan_cbs' = res.cbs
          /\ cb_log' = IF res.submit = <<>> THEN cb_log
                       ELSE LogCalls(cb_log, res.submit[1].cbs, scan_cb_cb(res.submit[1]))
          /\ frame' = [frame EXCEPT ![t] =
                         [NoFrame EXCEPT !.op = "mgos_wifi_scan", !.r = res.r,
                                         !.calls = res.calls, !.cbi = next_id,
                                         !.pre = Shared]]
  /\ next_id' = next_id + 1
  /\ pc' = [pc EXCEPT ![t] = "unlock"]
  /\ UNCHANGED <<s_sta_state, s_sta_should_connect, deferred, last>>

\* A task calls mgos_wifi_scan and calloc returns NULL: the request is dropped.
ScanNoMem(t) ==
  /\ pc[t] = "idle"
  /\ UNCHANGED vars

\* A task calls mgos_wifi_scan; the waiter is allocated.
Scan(t) ==
  /\ next_id <= MaxWaiters
  /\ Len(deferred) < MaxDeferred
  /\ CanLock(t)
  /\ \E run \in ScanRuns :
       \E res \in {mgos_wifi_scan(s_cur_mode, s_scan_in_progress, s_scan_cbs, next_id, run)} :
          /\ Lock(t, res.lk)
          /\ s_cur_mode' = res.mode
          /\ s_scan_in_progress' = res.in_progress
          /\ s_scan_cbs' = res.cbs
          /\ deferred' = deferred \o res.submit
          /\ frame' = [frame EXCEPT ![t] =
                         [NoFrame EXCEPT !.op = "mgos_wifi_scan", !.r = res.r,
                                         !.calls = res.calls,
                                         !.sub = res.submit, !.cbi = next_id,
                                         !.pre = Shared]]
  /\ next_id' = next_id + 1
  /\ pc' = [pc EXCEPT ![t] = "unlock"]
  /\ UNCHANGED <<s_sta_state, s_sta_should_connect, cb_log, last>>

\* The event task calls esp32_wifi_ev(ev).
HandleEvent(evs) ==
  /\ Len(deferred) < MaxDeferred
  /\ CanLock(EvTask)
  /\ \E ev \in evs :
       \E res \in {esp32_wifi_ev(Shared, ev)} :
          /\ Lock(EvTask, res.lk)
          /\ s_sta_state' = res.sta
          /\ s_scan_in_progress' = res.in_progress
          /\ s_scan_cbs' = res.cbs
          /\ deferred' = deferred \o res.submit
          /\ frame' = [frame EXCEPT ![EvTask] =
                         [NoFrame EXCEPT !.op = "esp32_wifi_ev", !.arg = ev.event_id,
                                         !.r = ESP_OK, !.calls = res.calls,
                                         !.sub = res.submit, !.mg_ev = res.mg_ev,
                                         !.pre = Shared]]
  /\ pc' = [pc EXCEPT ![EvTask] = "unlock"]
  /\ UNCHANGED <<s_sta_should_connect, s_cur_mode, next_id, cb_log, last>>

\* The final esp32_wifi_unlock() of the operation task t runs.  A caller's
\* operation then returns; so does the event handler when mg_ev < 0.
Unlock(t) ==
  /\ pc[t] = "unlock"
  /\ lock_owner = t
  /\ lock_count' = lock_count - 1
  /\ lock_owner' = IF lock_count - 1 = 0 THEN NoTask ELSE t
  /\ IF t = EvTask /\ frame[t].mg_ev # NO_MG_EV
     THEN /\ pc' = [pc EXCEPT ![t] = "notify"]
          /\ frame' = [frame EXCEPT ![t] = [NoFrame EXCEPT !.op = frame[t].op,
                                                           !.arg = frame[t].arg,
                                                           !.mg_ev = frame[t].mg_ev]]
     ELSE /\ pc' = [pc EXCEPT ![t] = "idle"]
          /\ frame' = [frame EXCEPT ![t] = NoFrame]
  /\ last' = IF frame[t].op \in ModeOps
             THEN [op |-> frame[t].op, arg |-> frame[t].arg, allok |-> frame[t].allok]
             ELSE last
  /\ UNCHANGED <<shared, deferred, next_id, cb_log>>

\* esp32_wifi_ev, after its unlock: mgos_invoke_cb(invoke_wifi_on_change_cb, mg_ev).
Notify ==
  /\ pc[EvTask] = "notify"
  /\ deferred' = Append(deferred, ChangeItem(frame[EvTask].mg_ev))
  /\ pc' = [pc EXCEPT ![EvTask] = "idle"]
  /\ frame' = [frame EXCEPT ![EvTask] = NoFrame]
  /\ UNCHANGED <<shared, lock_owner, lock_count, next_id, cb_log, last>>

\* The main task runs the oldest item handed to mgos_invoke_cb.
RunDeferred ==
  /\ deferred # <<>>
  /\ deferred' = Tail(deferred)
  /\ cb_log' = IF Head(deferred).fn = "scan_cb_cb"
               THEN LogCalls(cb_log, Head(deferred).cbs, scan_cb_cb(Head(deferred)))
               ELSE cb_log
  /\ UNCHANGED <<shared, lock_owner, lock_count, pc, frame, next_id, last>>

\* The mode coordinator alone: application tasks call its three operations.
NextMode ==
  \/ \E t \in Callers : SetMode(t)
  \/ \E t \in Callers : AddMode(t)
  \/ \E t \in Callers : RemoveMode(t)
  \/ \E t \in Callers : Unlock(t)

SpecMode == Init /\ [][NextMode]_vars

\* The station life cycle: station setup and disconnect against radio events.
NextSta ==
  \/ \E t \in Callers : SetupSta(t)
  \/ \E t \in Callers : Disconnect(t)
  \/ HandleEvent(StaEvents)
  \/ \E t \in Tasks : Unlock(t)
  \/ Notify
  \/ RunDeferred

SpecSta == Init /\ [][NextSta]_vars

\* The scan multiplexer: scan requests against the events that end a scan.
NextScan ==
  \/ \E t \in Callers : ScanNoMem(t)
  \/ \E t \in Callers : Scan(t)
  \/ HandleEvent(ScanEvents)
  \/ \E t \in Tasks : Unlock(t)
  \/ RunDeferred

SpecScan == Init /\ [][NextScan]_vars

\* ===================================================== the mode coordinator
\* Task t has run operation op up to its final unlock.
Returned(t, op) == pc[t] = "unlock" /\ frame[t].op = op

\* RadioMode m does not include role.
Excludes(m, role) == m = WIFI_MODE_NULL \/ (m \in Roles /\ m # role)

\* C5, as claimed: RadioMode is always one of the four modes, and after any
\* removeCapability call returns, whatever the driver answered, it is not Dual.
C5_RemoveNeverLeavesDual ==
  /\ s_cur_mode \in Modes
  /\ \A t \in Callers :
       Returned(t, "mgos_wifi_remove_mode") =>
         s_cur_mode \in {WIFI_MODE_NULL, WIFI_MODE_STA, WIFI_MODE_AP}

\* C5, amended: RadioMode is always one of the four modes; after a
\* removeCapability call that returns success it is Off, Station or
\* AccessPoint, and a removeCapability call that fails leaves it as it was.
C5_RemoveOkNeverLeavesDual ==
  /\ s_cur_mode \in Modes
  /\ \A t \in Callers :
       Returned(t, "mgos_wifi_remove_mode") =>
         IF frame[t].r = ESP_OK
         THEN s_cur_mode \in {WIFI_MODE_NULL, WIFI_MODE_STA, WIFI_MODE_AP}
         ELSE s_cur_mode = frame[t].pre.mode

\* A removeCapability call made in Dual mode has returned success.
C5_Witness ==
  \E t \in Callers :
    /\ Returned(t, "mgos_wifi_remove_mode")
    /\ frame[t].pre.mode = WIFI_MODE_APSTA
    /\ frame[t].r = ESP_OK
    /\ s_cur_mode \in Roles

\* C6, as claimed: removeCapability(role) called while RadioMode excludes role
\* returns success, leaves RadioMode unchanged and makes no driver call.
C6_RemoveExcludedIsNoOp ==
  \A t \in Callers :
    (Returned(t, "mgos_wifi_remove_mode") /\ Excludes(frame[t].pre.mode, frame[t].arg))
      => /\ frame[t].r = ESP_OK
         /\ s_cur_mode = frame[t].pre.mode
         /\ frame[t].calls = <<>>

\* The mode addCapability(role) is to leave, by the table of the claim.
AddTable(m, role) ==
  IF m = WIFI_MODE_APSTA \/ m = role THEN m
  ELSE IF m \in Roles THEN WIFI_MODE_APSTA
  ELSE role

\* C7, as claimed: with every driver call succeeding, an addCapability or
\* removeCapability call that directly follows the same call with the same
\* role changes nothing and makes no driver call; and addCapability follows
\* its table.
C7_SameCallTwiceIsOnce ==
  \A t \in Callers :
    /\ (Returned(t, "mgos_wifi_add_mode") /\ frame[t].allok)
         => s_cur_mode = AddTable(frame[t].pre.mode, frame[t].arg)
    /\ ( /\ pc[t] = "unlock"
         /\ frame[t].op \in {"mgos_wifi_add_mode", "mgos_wifi_remove_mode"}
         /\ last.op = frame[t].op /\ last.arg = frame[t].arg
         /\ last.allok /\ frame[t].allok )
         => /\ s_cur_mode = frame[t].pre.mode
            /\ frame[t].calls = <<>>

\* C8: setMode(target) that returns success has set RadioMode to target;
\* setMode that returns a failure has left RadioMode as it was.
C8_SetModeAllOrNothing ==
  \A t \in Callers :
    Returned(t, "mgos_wifi_set_mode") =>
      IF frame[t].r = ESP_OK
      THEN s_cur_mode = frame[t].arg
      ELSE s_cur_mode = frame[t].pre.mode

\* A setMode to another mode has failed after the driver was initialised and
\* started on demand.
C8_Witness ==
  \E t \in Callers :
    /\ Returned(t, "mgos_wifi_set_mode")
    /\ frame[t].r # ESP_OK
    /\ frame[t].arg # frame[t].pre.mode
    /\ frame[t].pre.mode # WIFI_MODE_NULL
    /\ InSeq("esp_wifi_init", frame[t].calls)
    /\ InSeq("esp_wifi_start", frame[t].calls)

\* C9, as claimed: setMode(Off) called in mode Off returns success and leaves
\* the mode Off whenever esp_wifi_stop reports success or that there is
\* nothing to stop (not initialised, not started).
C9_SetModeOffWhenOffSucceeds ==
  \A t \in Callers :
    ( /\ Returned(t, "mgos_wifi_set_mode")
      /\ frame[t].arg = WIFI_MODE_NULL
      /\ frame[t].pre.mode = WIFI_MODE_NULL
      /\ frame[t].r # ESP_FAIL )
      => (frame[t].r = ESP_OK /\ s_cur_mode = WIFI_MODE_NULL)

\* ------------------------------------------------------------ scan multiplexer
Elems(q) == {q[i] : i \in 1..Len(q)}
\* how many times waiter w occurs in the list q
Occurs(w, q) == Cardinality({i \in 1..Len(q) : q[i] = w})
RECURSIVE OccursInItems(_, _)
OccursInItems(w, items) ==
  IF items = <<>> THEN 0
  ELSE Occurs(w, Head(items).cbs) + OccursInItems(w, Tail(items))
\* the event handler has handled event id and not yet returned
Handled(id) == Returned(EvTask, "esp32_wifi_ev") /\ frame[EvTask].arg = id

\* C1, request: a scan request made while a scan is in flight starts no second
\* hardware scan and is put at the head of the waiter list; a request that
\* starts the scan calls esp_wifi_scan_start once.
C1_RequestJoins ==
  \A t \in Callers :
    Returned(t, "mgos_wifi_scan") =>
      IF frame[t].pre.in_progress
      THEN /\ frame[t].calls = <<>>
           /\ frame[t].sub = <<>>
           /\ s_scan_in_progress
           /\ s_scan_cbs = <<frame[t].cbi>> \o frame[t].pre.cbs
      ELSE s_scan_in_progress =>
             /\ Occurs("esp_wifi_scan_start", frame[t].calls) = 1
             /\ s_scan_cbs = <<frame[t].cbi>> \o frame[t].pre.cbs
\* C1, completion: SYSTEM_EVENT_SCAN_DONE hands every queued waiter to one
\* deferred item and leaves the list empty.
C1_DoneTakesAll ==
  Handled("SYSTEM_EVENT_SCAN_DONE") =>
    /\ Len(frame[EvTask].sub) = 1
    /\ frame[EvTask].sub[1].cbs = frame[EvTask].pre.cbs
    /\ s_scan_cbs = <<>>
\* C1, delivery: running a scan item invokes every waiter of its batch with
\* the same result.
C1_BatchGetsSameResult ==
  (deferred # <<>> /\ deferred' = Tail(deferred) /\ Head(deferred).fn = "scan_cb_cb") =>
    \A w1, w2 \in Elems(Head(deferred).cbs) :
      /\ Len(cb_log'[w1]) = Len(cb_log[w1]) + 1
      /\ cb_log'[w1][Len(cb_log'[w1])] = cb_log'[w2][Len(cb_log'[w2])]
\* C1: scan requests that arrive while a scan is in flight join it; no second
\* hardware scan is started and all of them get the same result list.
C1_RequestsShareOneScan ==
  [][C1_RequestJoins' /\ C1_DoneTakesAll' /\ C1_BatchGetsSameResult]_vars
\* a scan with its starter and two joiners completes with a result list
C1_Witness ==
  /\ Handled("SYSTEM_EVENT_SCAN_DONE")
  /\ Len(frame[EvTask].pre.cbs) = MaxWaiters
  /\ frame[EvTask].sub[1].num_aps = MaxAps

\* C2: when the station interface stops while a scan is in flight, every
\* queued waiter is handed to the main task with the failure count -1 and no
\* result array, and the scan is no longer in flight.
C2_StopFailsWaiters ==
  (Handled("SYSTEM_EVENT_STA_STOP") /\ frame[EvTask].pre.in_progress) =>
    /\ frame[EvTask].sub = <<invoke_scan_callbacks(frame[EvTask].pre.cbs, -1, NullPtr)>>
    /\ scan_cb_cb(frame[EvTask].sub[1]) = [num_aps |-> -1, res |-> NullPtr]
    /\ s_scan_cbs = <<>>
    /\ ~s_scan_in_progress
    /\ s_sta_state = STA_NULL
C2_Witness ==
  /\ Handled("SYSTEM_EVENT_STA_STOP")
  /\ frame[EvTask].pre.in_progress
  /\ Len(frame[EvTask].pre.cbs) >= 2

\* C4: no waiter is invoked more than once, and a waiter is in at most one
\* place: the waiter list, one deferred batch, or already invoked.
C4_WaiterInvokedOnce ==
  \A w \in WaiterIds :
    Len(cb_log[w]) + Occurs(w, s_scan_cbs) + OccursInItems(w, deferred) <= 1
\* a SYSTEM_EVENT_SCAN_DONE arrives with no scan in flight, after a waiter
\* has been invoked and while another waits in a batch
C4_Witness ==
  /\ Handled("SYSTEM_EVENT_SCAN_DONE")
  /\ ~frame[EvTask].pre.in_progress
  /\ \E w \in WaiterIds : Len(cb_log[w]) = 1
  /\ \E w \in WaiterIds : OccursInItems(w, deferred) = 1

\* The scan multiplexer under the scheduling the platform gives: the main
\* task runs what is handed to it, a task that holds the lock releases it,
\* and the driver ends a scan it has started.
SpecScanLive ==
  /\ SpecScan
  /\ WF_vars(RunDeferred)
  /\ \A t \in Tasks : WF_vars(Unlock(t))
  /\ WF_vars(s_scan_in_progress /\ HandleEvent(ScanEvents))

\* C3: every accepted scan request is eventually answered: its callback is
\* invoked, with results or with the failure count.
C3_EveryWaiterAnswered ==
  \A w \in WaiterIds : (next_id > w) ~> (cb_log[w] # <<>>)
\* a joiner has been answered with the failure count
C3_Witness ==
  \E w \in WaiterIds :
    /\ cb_log[w] # <<>>
    /\ cb_log[w][1].num_aps = -1
    /\ \E v \in WaiterIds : v # w /\ cb_log[v] = cb_log[w]

\* --------------------------------------------------------------- reconnection
\* C10: on SYSTEM_EVENT_STA_DISCONNECTED the handler reconnects exactly when
\* s_sta_should_connect is set (one esp_wifi_connect, state "connecting"),
\* otherwise it goes "idle" with no driver call; in both cases the change
\* callback is then handed MGOS_WIFI_DISCONNECTED.
C10_HandledRight ==
  Handled("SYSTEM_EVENT_STA_DISCONNECTED") =>
    /\ frame[EvTask].mg_ev = MGOS_WIFI_DISCONNECTED
    /\ frame[EvTask].sub = <<>>
    /\ s_sta_should_connect = frame[EvTask].pre.should
    /\ IF frame[EvTask].pre.should
       THEN frame[EvTask].calls = <<"esp_wifi_connect">> /\ s_sta_state = "connecting"
       ELSE frame[EvTask].calls = <<>> /\ s_sta_state = "idle"
C10_Notified ==
  (pc[EvTask] = "notify" /\ frame[EvTask].arg = "SYSTEM_EVENT_STA_DISCONNECTED"
     /\ pc'[EvTask] = "idle") =>
    deferred' = Append(deferred, ChangeItem(MGOS_WIFI_DISCONNECTED))
C10_ReconnectIffWanted ==
  [][C10_HandledRight' /\ C10_Notified]_vars
C10_Witness ==
  /\ Handled("SYSTEM_EVENT_STA_DISCONNECTED")
  /\ frame[EvTask].pre.should
  /\ frame[EvTask].pre.sta = "got ip"
  /\ frame[EvTask].calls = <<"esp_wifi_connect">>

\* ------------------------------------------------------------ station setup
\* the position of the first x in the log q, 0 when there is none
FirstAt(x, q) == IF InSeq(x, q) THEN CHOOSE i \in 1..Len(q) :
                                        q[i] = x /\ \A j \in 1..(i - 1) : q[j] # x
                 ELSE 0
\* the position of the last x in the log q, 0 when there is none
LastAt(x, q) == IF InSeq(x, q) THEN CHOOSE i \in 1..Len(q) :
                                       q[i] = x /\ \A j \in (i + 1)..Len(q) : q[j] # x
                ELSE 0
\* RadioMode m includes the Station role.
HasSta(m) == m \in {WIFI_MODE_STA, WIFI_MODE_APSTA}

\* C11: setupStation with an enabled valid config that returns success leaves
\* Station (from Off or Station) or Dual (from AccessPoint or Dual), has set
\* ShouldReconnect, and has called esp_wifi_connect after esp_wifi_set_config;
\* setupStation with a disabled config that returns success leaves
\* ShouldReconnect false and a mode without Station.
C11_SetupStaSuccess ==
  \A t \in Callers :
    (Returned(t, "mgos_wifi_setup_sta") /\ frame[t].r = "true") =>
      /\ frame[t].arg = "enable" =>
           /\ s_cur_mode = (IF frame[t].pre.mode \in {WIFI_MODE_NULL, WIFI_MODE_STA}
                            THEN WIFI_MODE_STA ELSE WIFI_MODE_APSTA)
           /\ s_sta_should_connect
           /\ FirstAt("esp_wifi_set_config", frame[t].calls) > 0
           /\ LastAt("esp_wifi_connect", frame[t].calls)
                > FirstAt("esp_wifi_set_config", frame[t].calls)
      /\ frame[t].arg = "disable" =>
           /\ ~s_sta_should_connect
           /\ ~HasSta(s_cur_mode)
      /\ frame[t].arg # "invalid"
\* setupStation succeeded in AccessPoint mode though the host name could not
\* be set because the interface was not ready
C11_Witness ==
  \E t \in Callers :
    /\ Returned(t, "mgos_wifi_setup_sta")
    /\ frame[t].r = "true"
    /\ frame[t].arg = "enable"
    /\ frame[t].pre.mode = WIFI_MODE_AP
    /\ frame[t].host_r = ESP_ERR_TCPIP_ADAPTER_IF_NOT_READY

\* ------------------------------------------------------- scan and radio mode
\* The scan multiplexer with the access point switched on and off by the
\* application, the driver answering ESP_OK to that.
NextScanMode ==
  \/ \E t \in Callers : SetupAp(t, ApInputsOk)
  \/ \E t \in Callers : Scan(t)
  \/ HandleEvent(ScanEvents)
  \/ \E t \in Tasks : Unlock(t)
  \/ RunDeferred

SpecScanMode == Init /\ [][NextScanMode]_vars

\* C12: mgos_wifi_scan calls esp_wifi_scan_start only with a mode that
\* includes Station, reached before the call: Dual from AccessPoint, Station
\* from Off; from Station or Dual it makes no mode change.
C12_ScanStartsInStationMode ==
  \A t \in Callers :
    Returned(t, "mgos_wifi_scan") =>
      /\ InSeq("esp_wifi_scan_start", frame[t].calls) =>
           /\ s_cur_mode = (CASE frame[t].pre.mode = WIFI_MODE_AP -> WIFI_MODE_APSTA
                              [] frame[t].pre.mode = WIFI_MODE_NULL -> WIFI_MODE_STA
                              [] OTHER -> frame[t].pre.mode)
           /\ ~HasSta(frame[t].pre.mode) =>
                /\ FirstAt("esp_wifi_set_mode", frame[t].calls) > 0
                /\ LastAt("esp_wifi_set_mode", frame[t].calls)
                     < FirstAt("esp_wifi_scan_start", frame[t].calls)
      /\ HasSta(frame[t].pre.mode) =>
           /\ s_cur_mode = frame[t].pre.mode
           /\ \A i \in 1..Len(frame[t].calls) : frame[t].calls[i] = "esp_wifi_scan_start"
\* a scan requested in AccessPoint mode has started in Dual mode
C12_Witness ==
  \E t \in Callers :
    /\ Returned(t, "mgos_wifi_scan")
    /\ frame[t].pre.mode = WIFI_MODE_AP
    /\ s_cur_mode = WIFI_MODE_APSTA
    /\ s_scan_in_progress
    /\ InSeq("esp_wifi_scan_start", frame[t].calls)

\* C13: when mgos_wifi_scan finds no scan in flight and adding the Station
\* role, starting the radio or starting the scan fails, the failure count -1
\* with no result list is handed to the main task for this waiter alone; the
\* waiter is not queued, the flag stays false and the queue stays empty.
C13_FailedStartFailsOnlyCaller ==
  \A t \in Callers :
    (Returned(t, "mgos_wifi_scan") /\ ~frame[t].pre.in_progress
       /\ frame[t].r # ESP_OK) =>
      /\ frame[t].sub = <<invoke_scan_callbacks(<<frame[t].cbi>>, -1, NullPtr)>>
      /\ scan_cb_cb(frame[t].sub[1]) = [num_aps |-> -1, res |-> NullPtr]
      /\ ~s_scan_in_progress
      /\ s_scan_cbs = <<>>
      /\ frame[t].pre.cbs = <<>>
\* esp_wifi_start failed after the Station role had been added
C13_Witness ==
  \E t \in Callers :
    /\ Returned(t, "mgos_wifi_scan")
    /\ frame[t].r # ESP_OK
    /\ frame[t].pre.mode = WIFI_MODE_NULL
    /\ s_cur_mode = WIFI_MODE_STA
    /\ frame[t].calls[Len(frame[t].calls)] = "esp_wifi_start"
    /\ frame[t].cbi > 1

\* ------------------------------------------------------------- configuration
\* The configuration calls of the application: the combined apply and the two
\* role setups.
NextCfg ==
  \/ \E t \in Callers : SetConfig(t, CfgInputs)
  \/ \E t \in Callers : SetupAp(t, ApInputs)
  \/ \E t \in Callers : SetupSta(t)
  \/ \E t \in Callers : Unlock(t)

SpecCfg == Init /\ [][NextCfg]_vars

\* The mode the combined apply policy names for the roles a config enables.
PolicyMode(arg) ==
  CASE arg = "ap" -> WIFI_MODE_AP
    [] arg = "ap+sta+keep" -> WIFI_MODE_APSTA
    [] arg = "sta" -> WIFI_MODE_STA
    [] OTHER -> WIFI_MODE_NULL

\* C14, as claimed: after mgos_wifi_set_config returns success, RadioMode is
\* the mode the policy names, whatever it was before.  The case of both roles
\* enabled without keep-enabled, which the policy sends to Off and the code to
\* the station setup, is left out.
C14_ApplyFollowsPolicy ==
  \A t \in Callers :
    (Returned(t, "mgos_wifi_set_config") /\ frame[t].r = "true"
       /\ frame[t].arg # "ap+sta") =>
      s_cur_mode = PolicyMode(frame[t].arg)

\* The state an operation of task t found is the state it leaves.
LeftUnchanged(t) == Shared = frame[t].pre
\* mgos_wifi_set_config of task t has reached the validation of a
\* configuration that does not pass it; with both roles kept, that of the
\* access point once the mode has been raised to Dual.
ReachesInvalid(t) ==
  \/ frame[t].arg = "ap" /\ "ap" \in frame[t].inv
  \/ frame[t].arg \in {"sta", "ap+sta"} /\ "sta" \in frame[t].inv
  \/ /\ frame[t].arg = "ap+sta+keep" /\ "ap" \in frame[t].inv
     /\ frame[t].pre.mode # WIFI_MODE_APSTA /\ s_cur_mode = WIFI_MODE_APSTA

\* C15, as claimed: a configuration call whose station or access point
\* settings fail validation returns failure, makes no driver call and leaves
\* the shared state as it was.
C15_InvalidConfigHasNoEffect ==
  \A t \in Callers :
    ( \/ Returned(t, "mgos_wifi_setup_sta") /\ frame[t].arg = "invalid"
      \/ Returned(t, "mgos_wifi_setup_ap") /\ frame[t].arg = "invalid"
      \/ Returned(t, "mgos_wifi_set_config") /\ ReachesInvalid(t) )
      => /\ frame[t].r = "false"
         /\ frame[t].calls = <<>>
         /\ LeftUnchanged(t)

\* ----------------------------------------------------- scan after detachment
\* the items that were waiting for the main task when the operation of task t
\* began
PendingBefore(t) == SubSeq(deferred, 1, Len(deferred) - Len(frame[t].sub))
\* a detached batch of waiters was waiting for the main task when the
\* operation of task t began
BatchPending(t) ==
  \E i \in 1..Len(PendingBefore(t)) :
    PendingBefore(t)[i].fn = "scan_cb_cb" /\ PendingBefore(t)[i].cbs # <<>>

\* C16, request: a scan request made after the waiters were detached and
\* before their batch has run finds no scan in flight and an empty list, is in
\* none of the pending batches, and, the radio being in a station mode,
\* starts a new hardware scan whose only waiter it is.
C16_RequestAfterDetach ==
  \A t \in Callers :
    (Returned(t, "mgos_wifi_scan") /\ BatchPending(t) /\ ~frame[t].pre.in_progress) =>
      /\ frame[t].pre.cbs = <<>>
      /\ OccursInItems(frame[t].cbi, PendingBefore(t)) = 0
      /\ HasSta(frame[t].pre.mode) => frame[t].calls = <<"esp_wifi_scan_start">>
      /\ frame[t].r = ESP_OK => s_scan_in_progress /\ s_scan_cbs = <<frame[t].cbi>>
\* C16, delivery: running a batch invokes the waiters of that batch only.
C16_BatchReachesOnlyItsWaiters ==
  (deferred # <<>> /\ deferred' = Tail(deferred)) =>
    \A w \in WaiterIds :
      cb_log'[w] # cb_log[w] =>
        Head(deferred).fn = "scan_cb_cb" /\ w \in Elems(Head(deferred).cbs)
C17_QueuedOnlyWhileInFlight ==
  lock_owner = NoTask => (s_scan_cbs # <<>> => s_scan_in_progress)
\* with the lock free, two waiters are queued on a scan that was started
\* after an earlier one had been ended by a station stop
C17_Witness ==
  /\ lock_owner = NoTask
  /\ Len(s_scan_cbs) = 2
  /\ s_scan_in_progress
  /\ \E w \in WaiterIds : cb_log[w] # <<>> /\ cb_log[w][1].num_aps = -1

\* --------------------------------------------------------- deferred dispatch
\* Scan requests against every radio event, with the status notifications.
NextNotify ==
  \/ \E t \in Callers : Scan(t)
  \/ HandleEvent(Events)
  \/ \E t \in Tasks : Unlock(t)
  \/ Notify
  \/ RunDeferred

SpecNotify == Init /\ [][NextNotify]_vars

\* q is p with items added at its end
Extends(q, p) == Len(q) >= Len(p) /\ SubSeq(q, 1, Len(p)) = p

\* C18, submission: the handler and mgos_wifi_scan only add items at the end
\* of the main task's queue: the scan items while they hold the lock, the
\* status notification after the handler has released it.
C18_OnlySubmitted ==
  /\ pc' # pc =>
       /\ cb_log' = cb_log
       /\ Extends(deferred', deferred)
  /\ \A t \in Tasks :
       (pc[t] = "idle" /\ pc'[t] = "unlock") =>
         /\ deferred' = deferred \o frame'[t].sub
         /\ lock_owner' = t
  /\ (pc[EvTask] = "notify" /\ pc'[EvTask] = "idle") =>
       /\ lock_owner # EvTask
       /\ deferred' = Append(deferred, ChangeItem(frame[EvTask].mg_ev))
\* C18, invocation: callbacks are invoked only when the main task takes the
\* oldest item of its queue, a step of no operation and of no handler.
C18_InvokedByMainTask ==
  /\ cb_log' # cb_log =>
       /\ deferred # <<>>
       /\ deferred' = Tail(deferred)
       /\ Head(deferred).fn = "scan_cb_cb"
  /\ Len(deferred') < Len(deferred) =>
       /\ deferred' = Tail(deferred)
       /\ pc' = pc /\ frame' = frame
       /\ lock_owner' = lock_owner /\ lock_count' = lock_count
       /\ shared' = shared
\* C18: no application callback is invoked inside esp32_wifi_ev, inside
\* mgos_wifi_scan or by a holder of the lock; callbacks are submitted to the
\* main task and run there in submission order.
C18_CallbacksAreDeferred ==
  [][C18_OnlySubmitted /\ C18_InvokedByMainTask]_vars
\* the failure callback of a scan request and a status notification have
\* both been submitted, and the scan callback has run
C18_Witness ==
  /\ \E w \in WaiterIds : cb_log[w] # <<>> /\ cb_log[w][1].num_aps = -1
  /\ deferred # <<>>
  /\ Head(deferred).fn = "invoke_wifi_on_change_cb"
  /\ Len(deferred) = MaxDeferred
  /\ deferred[MaxDeferred].fn = "scan_cb_cb"

\* ------------------------------------------------------- explicit disconnect
\* the events of a station that gets and loses its connection
DropEvents ==
  {PlainEvent("SYSTEM_EVENT_STA_DISCONNECTED"), PlainEvent("SYSTEM_EVENT_STA_GOT_IP")}

\* Station setup and explicit disconnect against the events of a dropped
\* connection and the first MaxDropScans scan requests.
NextDrop ==
  \/ \E t \in Callers : SetupSta(t)
  \/ \E t \in Callers : Disconnect(t)
  \/ \E t \in Callers : next_id <= MaxDropScans /\ Scan(t)
  \/ HandleEvent(DropEvents)
  \/ \E t \in Tasks : Unlock(t)
  \/ Notify
  \/ RunDeferred

SpecDrop == Init /\ [][NextDrop]_vars

\* C19, the call: mgos_wifi_disconnect clears ShouldReconnect, calls
\* esp_wifi_disconnect and leaves RadioMode, StationState and the scan state
\* as they were.
C19_DisconnectClearsFlag ==
  \A t \in Callers :
    Returned(t, "mgos_wifi_disconnect") =>
      /\ ~s_sta_should_connect
      /\ frame[t].calls = <<"esp_wifi_disconnect">>
      /\ Shared = [frame[t].pre EXCEPT !.should = FALSE]
\* C19, afterwards: the handler calls esp_wifi_connect only when it finds
\* ShouldReconnect set, and ShouldReconnect becomes set only in a
\* mgos_wifi_setup_sta call with an enabled config.
C19_NoConnectWhileCleared ==
  /\ (Returned(EvTask, "esp32_wifi_ev") /\ InSeq("esp_wifi_connect", frame[EvTask].calls))
       => frame[EvTask].pre.should
  /\ (~s_sta_should_connect /\ s_sta_should_connect') =>
       \E t \in Callers :
         /\ pc[t] = "idle" /\ pc'[t] = "unlock"
         /\ frame'[t].op = "mgos_wifi_setup_sta"
         /\ frame'[t].arg = "enable"
\* C19: after an explicit disconnect no handler reconnects until station
\* setup with an enabled config asks for it again.
C19_DisconnectStopsReconnect ==
  [][C19_DisconnectClearsFlag' /\ C19_NoConnectWhileCleared]_vars
\* after a disconnect of a connected station, with a scan requested since,
\* the handler has handled the disconnected event without reconnecting
C19_Witness ==
  /\ Handled("SYSTEM_EVENT_STA_DISCONNECTED")
  /\ frame[EvTask].pre.sta = "got ip"
  /\ ~frame[EvTask].pre.should
  /\ frame[EvTask].calls = <<>>
  /\ s_sta_state = "idle"
  /\ HasSta(s_cur_mode)
  /\ s_scan_in_progress

\* ------------------------------------------------------------ lock discipline
\* the events of SpecLock: a connection that comes and goes, and the end of
\* a scan
LockEvents ==
  {PlainEvent("SYSTEM_EVENT_STA_DISCONNECTED"), PlainEvent("SYSTEM_EVENT_STA_STOP")}
  \cup {e \in ScanDoneEvents : e.number = 0}

\* Every public operation and the event handler, up to the point where the
\* main task's queue is full: the driver answers ESP_OK to the configuration
\* calls, and anything to the scan request.
NextLock ==
  \/ \E t \in Callers : SetConfig(t, CfgInputsOk)
  \/ \E t \in Callers : SetupAp(t, ApInputsOk)
  \/ \E t \in Callers : SetupStaWith(t, StaInputsOk)
  \/ \E t \in Callers : Disconnect(t)
  \/ \E t \in Callers : GetStatusStr(t)
  \/ \E t \in Callers : next_id <= MaxDropScans /\ Scan(t)
  \/ HandleEvent(LockEvents)
  \/ \E t \in Tasks : Unlock(t)
  \/ Notify

SpecLock == Init /\ [][NextLock]_vars

\* Whoever holds the lock releases it.
SpecLockLive == SpecLock /\ \A t \in Tasks : WF_vars(Unlock(t))

\* C20, balance: the lock is held exactly by the task whose operation is
\* before its final unlock, once; with no operation running it is free.
C20_LockBalanced ==
  /\ \A t \in Tasks : pc[t] = "unlock" <=> lock_owner = t
  /\ lock_count = (IF lock_owner = NoTask THEN 0 ELSE 1)
\* C20, guard: the shared variables change only in the locked part of an
\* operation.
C20_WritesUnderLock ==
  shared' # shared =>
    /\ lock_owner = NoTask
    /\ lock_owner' \in Tasks
    /\ pc[lock_owner'] = "idle" /\ pc'[lock_owner'] = "unlock"
C20_Safe == [][C20_LockBalanced' /\ C20_WritesUnderLock]_vars
================================================================================
